---- MODULE Spec2Model ----
(***************************************************************************)
(* A model of the pretty-printing utilities of autarkydotai:               *)
(*   - _safe_repr (utils/_pprint.py), the flat recursive renderer with its *)
(*     cycle guard and depth limit, as a stack machine over a heap of      *)
(*     containers (so that cyclic values and the context are explicit);    *)
(*   - _PrettyPrinter.pformat (utils/_pprint.py), the width-constrained    *)
(*     layout, as recursive operators over the same heap;                  *)
(*   - ReprMixin.__repr__ (utils/mixins.py), the character-budget          *)
(*     truncation of the rendered string.                                  *)
(* Strings are sequences of tokens; a token is a TLA+ string (mostly one   *)
(* character) and the width of a string is the sum of its tokens' lengths. *)
(***************************************************************************)
EXTENDS Integers, Sequences, FiniteSets, TLC

\* ------------------------------------------------------------------ bounds
\* Largest number of entries of one container.
MaxItems == 2
\* Largest value of maxlevels and of the level of the top-level call.
MaxLevel == 2
\* Cap on the steps of one _safe_repr call (never reached, see C1, C2).
StepCap == 40
\* Largest number of entries of the mapping that is inserted anew.
MaxKeys == 3
\* Latest day of the price history and of the dates asked for.
MaxDate == 4
\* Largest number of items handed to an item loop.
MaxLoopItems == 3
\* Largest length of the string __repr__ cuts, and largest N_CHAR_MAX.
MaxReprLen == 7
MaxBudget == 5

\* The identities of the container objects: two are what self-reference,
\* mutual reference and sharing need.
ObjIds == {1, 2}
\* A reference is a container identity or the leaf 0, the int 0.
Leaf == 0
Refs == {Leaf} \cup ObjIds
Kinds == {"dict", "list", "tuple", "obj"}

\* ------------------------------------------------------------ string helpers
RECURSIVE Width(_)
\* len(s): the characters of all tokens (summed by halves)
Width(s) ==
    IF s = <<>> THEN 0
    ELSE IF Len(s) = 1 THEN Len(s[1])
    ELSE LET m == Len(s) \div 2
         IN Width(SubSeq(s, 1, m)) + Width(SubSeq(s, m + 1, Len(s)))

RECURSIVE Join(_, _)
\* sep.join(components)
Join(comps, sep) ==
    IF comps = <<>> THEN <<>>
    ELSE IF Len(comps) = 1 THEN comps[1]
    ELSE comps[1] \o sep \o Join(Tail(comps), sep)

CommaSpace == <<",", " ">>
Dots == <<".", ".", ".">>

RECURSIVE LStrip(_, _)
LStrip(s, c) == IF s # <<>> /\ Head(s) = c THEN LStrip(Tail(s), c) ELSE s
RECURSIVE RStrip(_, _)
RStrip(s, c) ==
    IF s # <<>> /\ s[Len(s)] = c THEN RStrip(SubSeq(s, 1, Len(s) - 1), c) ELSE s
\* str.strip(c): every leading and trailing c removed
Strip(s, c) == RStrip(LStrip(s, c), c)

\* ------------------------------------------------------------------- keys
\* Keys of mappings and parameter names.  "a" < "b" < "c" are str keys;
\* "f", "g" and "h" are the frozensets {1}, {2} and {1, 2}, whose < is the
\* proper-subset relation (a partial order that raises no TypeError).
StrKeys == {"a", "b", "c"}
SetKeys == {"f", "g", "h"}
AllKeys == StrKeys \cup SetKeys
NoKey == ""

StrRank(k) == CASE k = "a" -> 1 [] k = "b" -> 2 [] k = "c" -> 3 [] OTHER -> 0
SetElems(k) == CASE k = "f" -> {1} [] k = "g" -> {2} [] k = "h" -> {1, 2} [] OTHER -> {}

\* repr(key)
KeyRepr(k) ==
    CASE k \in StrKeys -> <<"'", k, "'">>
      [] k = "f" -> <<"frozenset", "(", "{", "1", "}", ")">>
      [] k = "g" -> <<"frozenset", "(", "{", "2", "}", ")">>
      [] k = "h" -> <<"frozenset", "(", "{", "1", ",", " ", "2", "}", ")">>
      [] OTHER -> <<>>

\* pprint._safe_key.__lt__ as used through pprint._safe_tuple: the keys' own
\* <, and on TypeError (str against frozenset) the order of
\* (str(type(obj)), id(obj)): "<class 'frozenset'>" sorts before "<class 'str'>".
SafeKeyLt(k1, k2) ==
    IF k1 \in StrKeys /\ k2 \in StrKeys THEN StrRank(k1) < StrRank(k2)
    ELSE IF k1 \in SetKeys /\ k2 \in SetKeys
         THEN SetElems(k1) \subseteq SetElems(k2) /\ SetElems(k1) # SetElems(k2)
    ELSE k1 \in SetKeys /\ k2 \in StrKeys

\* ------------------------------------------------------------- list.sort
\* sorted(items, key=...) for fewer than 64 items: count_run finds the
\* leading run (a strictly descending one is reversed), then the remaining
\* items are placed by binary insertion.
RECURSIVE RunEnd(_, _, _)
\* the last index of the run of s that starts at 1 and has reached index i
RunEnd(s, i, desc) ==
    IF i = Len(s) THEN i
    ELSE IF SafeKeyLt(s[i + 1].k, s[i].k) = desc THEN RunEnd(s, i + 1, desc)
    ELSE i

Reverse(s) == [i \in 1..Len(s) |-> s[Len(s) + 1 - i]]

RECURSIVE BinPos(_, _, _, _)
\* binarysort's search: the number of items of s[1..] placed before pivot
BinPos(s, pivot, l, r) ==
    IF l >= r THEN l
    ELSE LET p == l + ((r - l) \div 2)
         IN IF SafeKeyLt(pivot.k, s[p + 1].k)
            THEN BinPos(s, pivot, l, p)
            ELSE BinPos(s, pivot, p + 1, r)

RECURSIVE BinarySort(_, _)
\* s[1..n] is sorted; insert s[n+1..] one by one
BinarySort(s, n) ==
    IF n >= Len(s) THEN s
    ELSE LET pivot == s[n + 1]
             l == BinPos(s, pivot, 0, n)
             placed == SubSeq(s, 1, l) \o <<pivot>> \o SubSeq(s, l + 1, n)
                       \o SubSeq(s, n + 2, Len(s))
         IN BinarySort(placed, n + 1)

SortedItemsUnsorted(items) == items

SortedItems(items) ==
    IF Len(items) < 2 THEN items
    ELSE LET desc == SafeKeyLt(items[2].k, items[1].k)
             n == RunEnd(items, 2, desc)
             run == SubSeq(items, 1, n)
             rest == SubSeq(items, n + 1, Len(items))
         IN BinarySort((IF desc THEN Reverse(run) ELSE run) \o rest, n)

\* ------------------------------------------------------------------ heap
Entry(k, v) == [k |-> k, v |-> v]

RECURSIVE SeqsUpTo(_, _)
\* the sequences over S of length at most n
SeqsUpTo(S, n) ==
    IF n = 0 THEN {<<>>}
    ELSE LET shorter == SeqsUpTo(S, n - 1)
         IN shorter \cup {Append(s, x) : s \in {t \in shorter : Len(t) = n - 1}, x \in S}

NthStrKey(i) == CASE i = 1 -> "a" [] i = 2 -> "b" [] OTHER -> "c"

\* A list or tuple holds its elements in order; the entries of a dict or the
\* parameters of a ReprMixin object are keyed "a", "b", ... here in key order
\* (InitOrder draws the insertion orders and the other keys).
NodeOf(kind, vals) ==
    [kind |-> kind,
     items |-> [i \in 1..Len(vals) |->
                   Entry(IF kind \in {"dict", "obj"} THEN NthStrKey(i) ELSE NoKey,
                         vals[i])]]

EmptyList == NodeOf("list", <<>>)

RECURSIVE Reach(_, _, _)
\* the identities reachable from the identities in todo
Reach(h, todo, seen) ==
    IF todo = {} THEN seen
    ELSE LET o == CHOOSE x \in todo : TRUE
             kids == {h[o].items[i].v : i \in 1..Len(h[o].items)} \cap ObjIds
         IN Reach(h, (todo \cup kids) \ (seen \cup {o}), seen \cup {o})

\* Heaps: every object reachable from object 1; an object that is not is the
\* empty list (it only stands for an identity an outer frame may hold).
Heaps ==
    LET nodes == {NodeOf(kd, vs) : kd \in Kinds, vs \in SeqsUpTo(Refs, MaxItems)}
    IN {h \in [ObjIds -> nodes] :
          \A o \in ObjIds \ Reach(h, {1}, {}) : h[o] = EmptyList}

\* ------------------------------------------------------------- _safe_repr
TypeName(node) == IF node.kind = "obj" THEN "A" ELSE node.kind

\* pprint._recursion(object)
Recursion(h, o) ==
    <<"<Recursion on " \o TypeName(h[o]) \o " with id=" \o ToString(o) \o ">">>

\* repr of a builtin scalar
LeafRepr == <<"0">>

\* Wrap with the closing mark of a list replaced by that of a tuple
WrapListAsTuple(node, body) ==
    CASE node.kind = "dict" -> <<"{">> \o body \o <<"}">>
      [] node.kind = "list" -> <<"[">> \o body \o <<")">>
      [] node.kind = "tuple" ->
            IF Len(node.items) = 1 THEN <<"(">> \o body \o <<",", ")">>
            ELSE <<"(">> \o body \o <<")">>
      [] node.kind = "obj" -> <<"A", "(">> \o body \o <<")">>

\* Wrap without the special case of the one-element tuple
WrapNoSingleton(node, body) ==
    CASE node.kind = "dict" -> <<"{">> \o body \o <<"}">>
      [] node.kind = "list" -> <<"[">> \o body \o <<"]">>
      [] node.kind = "tuple" -> <<"(">> \o body \o <<")">>
      [] node.kind = "obj" -> <<"A", "(">> \o body \o <<")">>

\* format % body for the three container shapes and TypeName(...)
Wrap(node, body) ==
    CASE node.kind = "dict" -> <<"{">> \o body \o <<"}">>
      [] node.kind = "list" -> <<"[">> \o body \o <<"]">>
      [] node.kind = "tuple" ->
            IF Len(node.items) = 1 THEN <<"(">> \o body \o <<",", ")">>
            ELSE <<"(">> \o body \o <<")">>
      [] node.kind = "obj" -> <<TypeName(node), "(">> \o body \o <<")">>

\* what the depth limit returns in place of the children
Placeholder(node) ==
    IF node.kind = "obj" THEN <<"{">> \o Dots \o <<"}">>
    ELSE Wrap(node, Dots)

\* one 'key: value' / 'key=value' / element component
Component(node, e, vrepr) ==
    CASE node.kind = "dict" -> KeyRepr(e.k) \o <<":", " ">> \o vrepr
      [] node.kind = "obj" -> Strip(KeyRepr(e.k), "'") \o <<"=">> \o vrepr
      [] OTHER -> vrepr

Result(rep, readable, recursive) ==
    [rep |-> rep, readable |-> readable, recursive |-> recursive]

\* the depth test off by one
DepthReachedStrict(maxl, level) == maxl # 0 /\ level > maxl
\* maxlevels and level >= maxlevels
DepthReached(maxl, level) == maxl # 0 /\ level >= maxl
\* the cycle guard never firing
InContextNever(o, ctx) == FALSE
\* objid in context
InContext(o, ctx) == o \in ctx
\* context[objid] = 1
Register(ctx, o) == ctx \cup {o}
\* the identity left behind
UnregisterKeep(ctx, o) == ctx
\* del context[objid]
Unregister(ctx, o) == ctx \ {o}

\* the entry of _safe_repr with the cycle test before the depth test
DispatchCycleFirst(h, o, ctx, maxl, level) ==
    IF o = Leaf THEN [t |-> "ret", r |-> Result(LeafRepr, TRUE, FALSE)]
    ELSE IF h[o].kind # "obj" /\ h[o].items = <<>>
         THEN [t |-> "ret", r |-> Result(Wrap(h[o], <<>>), TRUE, FALSE)]
    ELSE IF InContext(o, ctx)
         THEN [t |-> "ret", r |-> Result(Recursion(h, o), FALSE, TRUE)]
    ELSE IF DepthReached(maxl, level)
         THEN [t |-> "ret", r |-> Result(Placeholder(h[o]), FALSE, FALSE)]
    ELSE [t |-> "expand", r |-> Result(<<>>, TRUE, FALSE)]

\* The part of _safe_repr(o, ctx, maxl, level) before the children: the
\* outcome "ret" carries the value returned at once, "expand" says that the
\* identity is registered and the children are rendered.
Dispatch(h, o, ctx, maxl, level) ==
    IF o = Leaf THEN [t |-> "ret", r |-> Result(LeafRepr, TRUE, FALSE)]
    ELSE IF h[o].kind # "obj" /\ h[o].items = <<>>
         THEN [t |-> "ret", r |-> Result(Wrap(h[o], <<>>), TRUE, FALSE)]
    ELSE IF DepthReached(maxl, level)
         THEN [t |-> "ret", r |-> Result(Placeholder(h[o]), FALSE, InContext(o, ctx))]
    ELSE IF InContext(o, ctx)
         THEN [t |-> "ret", r |-> Result(Recursion(h, o), FALSE, TRUE)]
    ELSE [t |-> "expand", r |-> Result(<<>>, TRUE, FALSE)]

\* ------------------------------------------------- ReprMixin.__repr__
Blank == {" ", "\n"}
\* len(''.join(s.split()))
NonBlank(s) == Cardinality({i \in 1..Len(s) : s[i] \notin Blank})

\* re.match('^(\s*\S){lim}', s).end(): the match ends with the lim-th
\* non-blank character of s (which has at least lim of them)
MatchEnd(s, lim) ==
    IF lim = 0 THEN 0
    ELSE CHOOSE e \in 1..Len(s) :
            s[e] \notin Blank /\ NonBlank(SubSeq(s, 1, e)) = lim

\* re.match('^(\s*\S){lim}[^\n]*\n', s).end(): the first newline after that
\* match (s has one there)
MatchLineEnd(s, lim) ==
    CHOOSE e \in (MatchEnd(s, lim) + 1)..Len(s) :
        /\ s[e] = "\n"
        /\ \A j \in (MatchEnd(s, lim) + 1)..(e - 1) : s[j] # "\n"

\* s[l:-r]: empty for r = 0
Middle(s, l, r) == IF r = 0 THEN <<>> ELSE SubSeq(s, l + 1, Len(s) - r)
\* s[-r:]: all of s for r = 0
Last(s, r) == IF r = 0 THEN s ELSE SubSeq(s, Len(s) - r + 1, Len(s))

\* the cut points (left_lim, right_lim) for the budget n
LeftLim(s, n) == MatchEnd(s, n \div 2)
RightLim(s, n) ==
    LET right_lim == MatchEnd(Reverse(s), n \div 2)
    IN IF \E i \in 1..Len(Middle(s, LeftLim(s, n), right_lim)) :
              Middle(s, LeftLim(s, n), right_lim)[i] = "\n"
       THEN MatchLineEnd(Reverse(s), n \div 2)
       ELSE right_lim

\* the ellipsis is put in whatever it does to the length
EllipsisShortensAlways(s, n) == TRUE
\* left_lim + len('...') < len(repr_) - right_lim
EllipsisShortens(s, n) == LeftLim(s, n) + Len(Dots) < Len(s) - RightLim(s, n)

\* The part of __repr__ after pformat: s is repr_, n is N_CHAR_MAX.
Truncate(s, n) ==
    IF NonBlank(s) > n /\ EllipsisShortens(s, n)
    THEN SubSeq(s, 1, LeftLim(s, n)) \o Dots \o Last(s, RightLim(s, n))
    ELSE s

\* --------------------------------------------------------------- the state
VARIABLES
    heap,       \* the objects: identity -> [kind, items]
    pc,         \* "idle", "run", "done" (returned) or "raised"
    maxlevels,  \* the maxlevels argument; 0 stands for None and for 0
    context,    \* the keys of the context dict
    ctx0,       \* the context when the top-level call was made
    root,       \* the argument of the top-level call: <<object, level>>
    stack,      \* the active _safe_repr frames that render children
    ret,        \* the last value a _safe_repr call returned, and for what
    steps,      \* the steps the call has taken
    printer,    \* the _PrettyPrinter whose pformat is called
    out,        \* what pformat returned
    heap2,      \* the objects with the entries of object 1 inserted anew
    outs,       \* the renderings of object 1 in heap and in heap2
    repr_,      \* the string pformat returned to ReprMixin.__repr__
    nCharMax,   \* the N_CHAR_MAX argument of ReprMixin.__repr__
    result,     \* what ReprMixin.__repr__ returned
    file,       \* the pickle stored under filename ("none": no such file)
    file0,      \* the same when save was called
    self,       \* the object whose save is called
    answer,     \* the line the user types when asked
    prompted,   \* the user has been asked
    lp,         \* the arguments of the two item loops and their printer
    fi,         \* the loop of _format_items
    fp,         \* the loop of _format_params_or_dict_items
    argsOk,     \* symbols, csvdir and fields pass get_pricing's validation
    startArg,   \* the start_date argument of get_pricing
    endArg,     \* the end_date argument
    hist,       \* <<history_start, history_end>> of the data that is read
    prices      \* how get_pricing ended

\* the state of the _safe_repr call, of the printer, and of __repr__
mvars == <<maxlevels, context, ctx0, root, stack, ret, steps>>
pvars == <<printer, out, heap2, outs>>
rvars == <<repr_, nCharMax, result>>
\* the state of PickleMixin.save
svars == <<file, file0, self, answer, prompted>>
\* the state of what is outside the pretty printer
\* the state of the two item loops run side by side
lvars == <<lp, fi, fp>>
\* the state of get_pricing
dvars == <<argsOk, startArg, endArg, hist, prices>>
xvars == <<svars, lvars, dvars>>
vars == <<heap, pc, mvars, pvars, rvars, xvars>>

\* ret: the call _safe_repr(obj, ., ., level) returned (rep, readable,
\* recursive); early says that it returned before rendering any child, and
\* comps are the components it joined when it did render them.
NoRet == [obj |-> Leaf, level |-> 0, rep |-> <<>>, readable |-> TRUE,
          recursive |-> FALSE, early |-> FALSE, comps |-> <<>>]

Returned(o, level, r, early, comps) ==
    [obj |-> o, level |-> level, rep |-> r.rep, readable |-> r.readable,
     recursive |-> r.recursive, early |-> early, comps |-> comps]

\* A frame past its entry: the identity is registered, level is already the
\* children's level, items are the sorted entries, idx the next one.
Frame(h, o, level) ==
    [obj |-> o, level |-> level + 1,
     items |-> IF h[o].kind \in {"dict", "obj"} THEN SortedItems(h[o].items)
               ELSE h[o].items,
     idx |-> 1, comps |-> <<>>, readable |-> TRUE, recursive |-> FALSE]

\* the loop body keeping only the flag of the child that returned last
AbsorbLastOnly(h, f, r) ==
    [f EXCEPT !.comps = Append(@, Component(h[f.obj], f.items[f.idx], r.rep)),
              !.readable = r.readable,
              !.recursive = @ \/ r.recursive,
              !.idx = @ + 1]

\* The caller's loop body after a child returned r: the component is
\* appended and the flags are folded (the key of an entry is a scalar: its
\* own _safe_repr call returns (repr(key), True, False) at once).
Absorb(h, f, r) ==
    [f EXCEPT !.comps = Append(@, Component(h[f.obj], f.items[f.idx], r.rep)),
              !.readable = @ /\ r.readable,
              !.recursive = @ \/ r.recursive,
              !.idx = @ + 1]

\* ------------------------------------------- _safe_repr as a function
RECURSIVE SafeRepr(_, _, _, _, _)
\* _safe_repr(o, ctx, maxl, level) when nothing raises: the frames above,
\* run to completion (every child sees the context with o registered).
SafeRepr(h, o, ctx, maxl, level) ==
    LET d == Dispatch(h, o, ctx, maxl, level)
        RECURSIVE Loop(_)
        Loop(f) ==
            IF f.idx > Len(f.items) THEN f
            ELSE Loop(Absorb(h, f, SafeRepr(h, f.items[f.idx].v, Register(ctx, o),
                                            maxl, f.level)))
    IN IF d.t = "ret" THEN d.r
       ELSE LET f == Loop(Frame(h, o, level))
            IN Result(Wrap(h[o], Join(f.comps, CommaSpace)), f.readable, f.recursive)

\* ----------------------------------------------------- _PrettyPrinter
\* A printer: _width, _depth (0 for None), _compact and
\* n_max_elements_to_show (-1 for None).  _indent_per_level is 1, as
\* indent_at_name (the default) makes it.
Printer(width, depth, compact, nmax) ==
    [width |-> width, depth |-> depth, compact |-> compact, nmax |-> nmax]

\* the printer of ReprMixin.__repr__
ReprPrinter == Printer(80, 0, TRUE, 30)

Spaces(n) == [i \in 1..n |-> " "]
EllipsisItem == <<",", " ", ".", ".", ".">>

\* sorted(params.items()) of _pprint_object: the parameter names are
\* distinct strings, so the tuples are ordered by name
SortedParams(items) == SortedItems(items)

RECURSIVE PyRepr(_, _, _), PyReprItems(_, _, _, _), Format(_, _, _, _, _, _, _),
          FormatKeyVal(_, _, _, _, _, _, _, _), ItemsLoop(_, _, _, _, _, _, _, _, _, _),
          Pformat(_, _, _)

\* The builtin repr(v), which renders what a KeyValTuple holds
\* (KeyValTuple.__repr__ is tuple.__repr__): insertion order, '{...}',
\* '[...]', '(...)' for a container that is being rendered (Py_ReprEnter),
\* and ReprMixin.__repr__ for an object (its rendering stays far below
\* N_CHAR_MAX here, so nothing is cut).
PyRepr(h, v, active) ==
    IF v = Leaf THEN LeafRepr
    ELSE IF h[v].kind = "obj" THEN Pformat(h, ReprPrinter, v)
    ELSE IF v \in active THEN
        CASE h[v].kind = "dict" -> <<"{">> \o Dots \o <<"}">>
          [] h[v].kind = "list" -> <<"[">> \o Dots \o <<"]">>
          [] OTHER -> <<"(">> \o Dots \o <<")">>
    ELSE Wrap(h[v], PyReprItems(h, v, active \cup {v}, 1))

\* the items of a builtin container from the i-th on, as its repr joins them
PyReprItems(h, v, active, i) ==
    IF i > Len(h[v].items) THEN <<>>
    ELSE (IF i > 1 THEN CommaSpace ELSE <<>>)
         \o (IF h[v].kind = "dict" THEN KeyRepr(h[v].items[i].k) \o <<":", " ">>
             ELSE <<>>)
         \o PyRepr(h, h[v].items[i].v, active)
         \o PyReprItems(h, v, active, i + 1)

\* repr(KeyValTuple((k, v)))
KeyValRepr(h, e) ==
    <<"(">> \o KeyRepr(e.k) \o CommaSpace \o PyRepr(h, e.v, {}) \o <<")">>

\* len(rep) > max_width: the laid-out text instead of the flat repr
FitOrLayout(rep, max_width, laidout) ==
    IF Width(rep) > max_width THEN laidout ELSE rep

\* the pass with a budget that is never reset to the full line
ItemLayoutNoReset(P, L, last, allowance, delimnl, rep, full) ==
    LET max_width == IF last THEN L.max_width - allowance ELSE L.max_width
        width0 == IF last THEN L.width - allowance ELSE L.width
        w == Width(rep) + 2
    IN IF P.compact /\ width0 >= w
       THEN [out |-> L.out \o L.delim \o rep, delim |-> CommaSpace,
             width |-> width0 - w, max_width |-> max_width,
             n_items |-> L.n_items + 1, flat |-> TRUE]
       ELSE [out |-> L.out \o L.delim \o full, delim |-> delimnl,
             width |-> width0, max_width |-> max_width,
             n_items |-> L.n_items + 1, flat |-> FALSE]

\* the pass with the last item treated as every other item
ItemLayoutNoReserve(P, L, last, allowance, delimnl, rep, full) ==
    LET w == Width(rep) + 2
        wraps == P.compact /\ L.width < w
        width1 == IF wraps THEN L.max_width ELSE L.width
        delim1 == IF wraps /\ L.delim # <<>> THEN delimnl ELSE L.delim
    IN IF P.compact /\ width1 >= w
       THEN [out |-> L.out \o delim1 \o rep, delim |-> CommaSpace,
             width |-> width1 - w, max_width |-> L.max_width,
             n_items |-> L.n_items + 1, flat |-> TRUE]
       ELSE [out |-> L.out \o delim1 \o full, delim |-> delimnl,
             width |-> width1, max_width |-> L.max_width,
             n_items |-> L.n_items + 1, flat |-> FALSE]

\* the pass that counts no room for the separator
ItemLayoutNarrow(P, L, last, allowance, delimnl, rep, full) ==
    LET max_width == IF last THEN L.max_width - allowance ELSE L.max_width
        width0 == IF last THEN L.width - allowance ELSE L.width
        w == Width(rep)
        wraps == P.compact /\ width0 < w
        width1 == IF wraps THEN max_width ELSE width0
        delim1 == IF wraps /\ L.delim # <<>> THEN delimnl ELSE L.delim
    IN IF P.compact /\ width1 >= w
       THEN [out |-> L.out \o delim1 \o rep, delim |-> CommaSpace,
             width |-> width1 - w, max_width |-> max_width,
             n_items |-> L.n_items + 1, flat |-> TRUE]
       ELSE [out |-> L.out \o delim1 \o full, delim |-> delimnl,
             width |-> width1, max_width |-> max_width,
             n_items |-> L.n_items + 1, flat |-> FALSE]

\* What one pass of the loop of _format_items and of
\* _format_params_or_dict_items does with an entry, given its flat repr rep
\* and the text full that _format writes for it; last says that it is the
\* last entry.  L holds the loop's variables: out (what is written), delim,
\* width, max_width, n_items.
ItemLayout(P, L, last, allowance, delimnl, rep, full) ==
    LET max_width == IF last THEN L.max_width - allowance ELSE L.max_width
        width0 == IF last THEN L.width - allowance ELSE L.width
        w == Width(rep) + 2
        wraps == P.compact /\ width0 < w
        width1 == IF wraps THEN max_width ELSE width0
        delim1 == IF wraps /\ L.delim # <<>> THEN delimnl ELSE L.delim
    IN IF P.compact /\ width1 >= w
       THEN [out |-> L.out \o delim1 \o rep, delim |-> CommaSpace,
             width |-> width1 - w, max_width |-> max_width,
             n_items |-> L.n_items + 1, flat |-> TRUE]
       ELSE [out |-> L.out \o delim1 \o full, delim |-> delimnl,
             width |-> width1, max_width |-> max_width,
             n_items |-> L.n_items + 1, flat |-> FALSE]

\* the pass of the second loop breaking the line before every item
ParamsLayoutAlwaysBreak(P, L, last, allowance, delimnl, rep, full) ==
    LET max_width == IF last THEN L.max_width - allowance ELSE L.max_width
        w == Width(rep) + 2
        delim1 == IF L.delim # <<>> THEN delimnl ELSE L.delim
    IN IF P.compact /\ max_width >= w
       THEN [out |-> L.out \o delim1 \o rep, delim |-> CommaSpace,
             width |-> max_width - w, max_width |-> max_width,
             n_items |-> L.n_items + 1, flat |-> TRUE]
       ELSE [out |-> L.out \o delim1 \o full, delim |-> delimnl,
             width |-> max_width, max_width |-> max_width,
             n_items |-> L.n_items + 1, flat |-> FALSE]

\* The same pass as _format_params_or_dict_items writes it: rep is
\* krepr + middle + vrepr, full what _format writes for cls(ent).
ParamsLayout(P, L, last, allowance, delimnl, rep, full) ==
    LET max_width == IF last THEN L.max_width - allowance ELSE L.max_width
        width0 == IF last THEN L.width - allowance ELSE L.width
        w == Width(rep) + 2
        reset == P.compact /\ width0 < w
        width1 == IF reset THEN max_width ELSE width0
        delim1 == IF reset /\ L.delim # <<>> THEN delimnl ELSE L.delim
    IN IF P.compact /\ width1 >= w
       THEN [out |-> L.out \o delim1 \o rep, delim |-> CommaSpace,
             width |-> width1 - w, max_width |-> max_width,
             n_items |-> L.n_items + 1, flat |-> TRUE]
       ELSE [out |-> L.out \o delim1 \o full, delim |-> delimnl,
             width |-> width1, max_width |-> max_width,
             n_items |-> L.n_items + 1, flat |-> FALSE]

\* krepr + middle of a (key, value) pair: 'key: ' in a dict, key= among
\* parameters; nothing before an element of a list or a tuple
KeyPart(e, mode) ==
    CASE mode = "dict" -> KeyRepr(e.k) \o <<":", " ">>
      [] mode = "params" -> Strip(KeyRepr(e.k), "'") \o <<"=">>
      [] OTHER -> <<>>

\* the loop's variables before the first pass (indent is already advanced)
LoopStart(P, indent) ==
    [out |-> <<>>, delim |-> <<>>, width |-> P.width - indent + 1,
     max_width |-> P.width - indent + 1, n_items |-> 0, flat |-> FALSE]

\* the element limit reached one item early
LimitReachedEarly(P, L) == L.n_items + 1 = P.nmax
\* the element limit is reached
LimitReached(P, L) == L.n_items = P.nmax

\* The pass for entry i of items: mode "items" for the elements of a list or
\* a tuple (_format_items), "dict" and "params" for (key, value) pairs
\* (_format_params_or_dict_items).
ItemStep(h, P, items, indent, allowance, ctx, level, mode, L, i) ==
    ItemLayout(P, L, i = Len(items), allowance, <<",", "\n">> \o Spaces(indent),
               KeyPart(items[i], mode)
                   \o SafeRepr(h, items[i].v, ctx, P.depth, level).rep,
               IF mode = "items"
               THEN Format(h, P, items[i].v, indent,
                           IF i = Len(items) THEN allowance ELSE 1, ctx, level)
               ELSE FormatKeyVal(h, P, items[i], indent,
                                 IF i = Len(items) THEN allowance ELSE 1, ctx,
                                 level, mode))

\* The loop from entry i on, and what it has written when it ends: after the
\* last entry, or with ', ...' where the limit is reached.
ItemsLoop(h, P, items, indent, allowance, ctx, level, mode, L, i) ==
    IF i > Len(items) THEN L.out
    ELSE IF LimitReached(P, L) THEN L.out \o EllipsisItem
    ELSE ItemsLoop(h, P, items, indent, allowance, ctx, level, mode,
                   ItemStep(h, P, items, indent, allowance, ctx, level, mode, L, i),
                   i + 1)

\* _format_items and _format_params_or_dict_items: the text they write
FormatItems(h, P, items, indent, allowance, ctx, level, mode) ==
    ItemsLoop(h, P, items, indent + 1, allowance, ctx, level, mode,
              LoopStart(P, indent + 1), 1)

\* _format(cls(ent), ...) for a (key, value) pair: its repr if that fits,
\* else _pprint_key_val_tuple one level down
FormatKeyVal(h, P, e, indent, allowance, ctx, level, mode) ==
    FitOrLayout(KeyValRepr(h, e), P.width - indent - allowance,
                KeyPart(e, mode)
                    \o Format(h, P, e.v, indent + Width(KeyPart(e, mode)), allowance,
                              ctx, level + 1))

\* the closing mark that _pprint_tuple, _pprint_list, _pprint_dict and
\* _pprint_object write
Endchar(node) ==
    CASE node.kind = "dict" -> <<"}">>
      [] node.kind = "list" -> <<"]">>
      [] node.kind = "tuple" -> IF Len(node.items) = 1 THEN <<",", ")">> ELSE <<")">>
      [] OTHER -> <<")">>

\* the opening mark (for an object, its class name and '(')
Openchar(node) ==
    CASE node.kind = "dict" -> <<"{">>
      [] node.kind = "list" -> <<"[">>
      [] node.kind = "tuple" -> <<"(">>
      [] OTHER -> <<TypeName(node), "(">>

\* _pprint_dict, _pprint_list, _pprint_tuple (pprint.PrettyPrinter) and
\* _pprint_object: the items between the marks; those of a dict and the
\* parameters sorted, the parameters indented by the class name
PprintBody(h, P, o, indent, allowance, ctx, level) ==
    Openchar(h[o])
    \o FormatItems(h, P,
                   CASE h[o].kind = "dict" -> SortedItems(h[o].items)
                     [] h[o].kind = "obj" -> SortedParams(h[o].items)
                     [] OTHER -> h[o].items,
                   IF h[o].kind = "obj" THEN indent + Len(TypeName(h[o])) ELSE indent,
                   allowance + (IF h[o].kind = "tuple" THEN Len(Endchar(h[o])) ELSE 1),
                   ctx, level,
                   CASE h[o].kind = "dict" -> "dict"
                     [] h[o].kind = "obj" -> "params"
                     [] OTHER -> "items")
    \o Endchar(h[o])

\* pprint.PrettyPrinter._format: the recursion marker for an object on the
\* path, the flat repr if it fits or the type has no _dispatch entry, else
\* the dispatch on the type
Format(h, P, o, indent, allowance, ctx, level) ==
    IF o = Leaf THEN LeafRepr
    ELSE IF InContext(o, ctx) THEN Recursion(h, o)
    ELSE FitOrLayout(SafeRepr(h, o, ctx, P.depth, level).rep,
                     P.width - indent - allowance,
                     PprintBody(h, P, o, indent, allowance, Register(ctx, o),
                                level + 1))

\* pprint.PrettyPrinter.pformat
Pformat(h, P, o) == Format(h, P, o, 0, 0, {}, 0)

\* no pformat and no __repr__ call is under way
NoOuts == [maxl |-> 0, safe1 |-> <<>>, safe2 |-> <<>>, pf1 |-> <<>>, pf2 |-> <<>>]
PrinterIdle ==
    /\ printer = ReprPrinter
    /\ out = <<>>
    /\ heap2 = heap
    /\ outs = NoOuts
ReprIdle ==
    /\ repr_ = <<>>
    /\ nCharMax = 0
    /\ result = <<>>
\* no save is under way
SaveIdle ==
    /\ file = "none"
    /\ file0 = "none"
    /\ self = "p"
    /\ answer = ""
    /\ prompted = FALSE
\* a loop that has not been entered; trace holds the loop's variables when
\* it is entered and after every pass
LoopIdleState ==
    [at |-> "call", i |-> 1, trace |-> <<>>,
     L |-> [out |-> <<>>, delim |-> <<>>, width |-> 0, max_width |-> 0,
            n_items |-> 0, flat |-> FALSE]]
\* no item loop is under way
LoopIdle ==
    /\ lp = [P |-> ReprPrinter, ipl |-> 1, indent |-> 0, allowance |-> 0, ws |-> <<>>]
    /\ fi = LoopIdleState
    /\ fp = LoopIdleState
\* no get_pricing call is under way
PricingIdle ==
    /\ argsOk = TRUE
    /\ startArg = [k |-> "none", d |-> 0]
    /\ endArg = [k |-> "none", d |-> 0]
    /\ hist = <<0, 0>>
    /\ prices = "none"
ExtraIdle == SaveIdle /\ LoopIdle /\ PricingIdle
\* no _safe_repr call is under way
MachineIdle ==
    /\ maxlevels = 0
    /\ context = {}
    /\ ctx0 = {}
    /\ root = <<1, 0>>
    /\ stack = <<>>
    /\ ret = NoRet
    /\ steps = 0

Init ==
    /\ heap \in Heaps
    /\ pc = "idle"
    /\ maxlevels = 0
    /\ context \in SUBSET ObjIds
    /\ ctx0 = context
    /\ root = <<1, 0>>
    /\ stack = <<>>
    /\ ret = NoRet
    /\ steps = 0
    /\ PrinterIdle
    /\ ReprIdle
    /\ ExtraIdle

\* The top-level call _safe_repr(object 1, context, maxl, level).
Call(maxl, level) ==
    /\ pc = "idle"
    /\ LET o == 1
           d == Dispatch(heap, o, context, maxl, level)
       IN IF d.t = "ret"
          THEN /\ pc' = "done"
               /\ ret' = Returned(o, level, d.r, TRUE, <<>>)
               /\ UNCHANGED <<context, stack>>
          ELSE /\ pc' = "run"
               /\ context' = Register(context, o)
               /\ stack' = <<Frame(heap, o, level)>>
               /\ UNCHANGED ret
    /\ maxlevels' = maxl
    /\ root' = <<1, level>>
    /\ steps' = 1
    /\ UNCHANGED <<heap, ctx0, pvars, rvars, xvars>>

Top == stack[Len(stack)]
Below == SubSeq(stack, 1, Len(stack) - 1)

\* One iteration of the loop over the items: the child's _safe_repr call
\* returns at once, or it registers its identity and gets a frame.
RenderChild ==
    /\ pc = "run" /\ steps < StepCap
    /\ Top.idx <= Len(Top.items)
    /\ LET child == Top.items[Top.idx].v
           d == Dispatch(heap, child, context, maxlevels, Top.level)
       IN IF d.t = "ret"
          THEN /\ stack' = Append(Below, Absorb(heap, Top, d.r))
               /\ ret' = Returned(child, Top.level, d.r, TRUE, <<>>)
               /\ UNCHANGED context
          ELSE /\ stack' = Append(stack, Frame(heap, child, Top.level))
               /\ context' = Register(context, child)
               /\ UNCHANGED ret
    /\ steps' = steps + 1
    /\ UNCHANGED <<heap, pc, maxlevels, ctx0, root, pvars, rvars, xvars>>

\* After the loop: del context[objid] and return the assembled string.
ExitFrame ==
    /\ pc = "run" /\ steps < StepCap
    /\ Top.idx > Len(Top.items)
    /\ LET node == heap[Top.obj]
           r == Result(Wrap(node, Join(Top.comps, CommaSpace)),
                       Top.readable, Top.recursive)
       IN /\ context' = Unregister(context, Top.obj)
          /\ ret' = Returned(Top.obj, Top.level - 1, r, FALSE, Top.comps)
          /\ IF Len(stack) = 1
             THEN /\ stack' = <<>>
                  /\ pc' = "done"
             ELSE /\ stack' = Append(SubSeq(stack, 1, Len(stack) - 2),
                                     Absorb(heap, stack[Len(stack) - 1], r))
                  /\ pc' = pc
    /\ steps' = steps + 1
    /\ UNCHANGED <<heap, maxlevels, ctx0, root, pvars, rvars, xvars>>

\* An exception leaves _safe_repr: get_params of the object whose children
\* are about to be rendered, the comparison of the keys in sorted(), or the
\* repr of a child raises.  No frame handles it: every frame is unwound and
\* the context is left as it is.
Raise ==
    /\ pc = "run" /\ steps < StepCap
    /\ \/ Top.idx = 1 /\ heap[Top.obj].kind \in {"dict", "obj"}
       \/ Top.idx <= Len(Top.items)
    /\ pc' = "raised"
    /\ stack' = <<>>
    /\ steps' = steps + 1
    /\ UNCHANGED <<heap, maxlevels, context, ctx0, root, ret, pvars, rvars, xvars>>

Step == RenderChild \/ ExitFrame \/ Raise

Next ==
    \/ \E maxl \in 0..MaxLevel, level \in 0..MaxLevel : Call(maxl, level)
    \/ RenderChild
    \/ ExitFrame
    \/ Raise

Spec == Init /\ [][Next]_vars

\* ------------------------------------------------------------ pformat
\* Objects that pformat renders: no ReprMixin object lies on a cycle (the
\* repr of a (key, value) pair holding such an object calls __repr__ of the
\* object again and again, until RecursionError).
Kids(h, o) == {h[o].items[i].v : i \in 1..Len(h[o].items)} \cap ObjIds
OnCycle(h, o) == o \in Reach(h, Kids(h, o), {})
FormatHeaps == {h \in Heaps : \A o \in ObjIds : h[o].kind = "obj" => ~OnCycle(h, o)}

Widths == {4, 10, 16, 80}
Printers ==
    {Printer(w, d, c, n) : w \in Widths, d \in {0, 1}, c \in BOOLEAN,
                           n \in -1..MaxItems}

InitFormat ==
    /\ heap \in FormatHeaps
    /\ pc = "idle"
    /\ printer \in Printers
    /\ out = <<>>
    /\ heap2 = heap
    /\ outs = NoOuts
    /\ MachineIdle
    /\ ReprIdle
    /\ ExtraIdle

\* printer.pformat(object 1)
PformatCall ==
    /\ pc = "idle"
    /\ out' = Pformat(heap, printer, 1)
    /\ pc' = "done"
    /\ UNCHANGED <<heap, printer, heap2, outs, mvars, rvars, xvars>>

NextFormat == PformatCall

SpecFormat == InitFormat /\ [][NextFormat]_vars

\* ------------------------------------------- insertion order of a mapping
\* the sequences of distinct keys: strings, frozensets that < orders ("f"
\* and "h", "g" and "h") and frozensets that it does not ("f" and "g")
OrderKeys == {"a", "b", "f", "g", "h"}
KeySeqs == {ks \in SeqsUpTo(OrderKeys, MaxKeys) :
              \A i, j \in 1..Len(ks) : ks[i] = ks[j] => i = j}

\* Object 1 is a mapping over such keys; its values are the int 0, but for
\* the first entry, which may hold object 2, a mapping.
OrderHeaps ==
    {[o \in ObjIds |->
         IF o = 1
         THEN [kind |-> "dict",
               items |-> [i \in 1..Len(ks) |->
                             Entry(ks[i], IF i = 1 THEN v ELSE Leaf)]]
         ELSE NodeOf("dict", <<Leaf, Leaf>>)] :
        ks \in KeySeqs, v \in {Leaf, 2}}

Perms(n) == {f \in [1..n -> 1..n] : \A i, j \in 1..n : f[i] = f[j] => i = j}

InitOrder ==
    /\ heap \in OrderHeaps
    /\ pc = "idle"
    /\ printer \in {Printer(10, 0, FALSE, -1), Printer(10, 0, TRUE, -1),
                    Printer(80, 0, TRUE, -1)}
    /\ out = <<>>
    /\ heap2 = heap
    /\ outs = NoOuts
    /\ MachineIdle
    /\ ReprIdle
    /\ ExtraIdle

\* A second mapping gets the entries of object 1, inserted in the order f.
Reinsert(f) ==
    /\ pc = "idle"
    /\ heap2' = [heap EXCEPT ![1].items = [i \in 1..Len(@) |-> @[f[i]]]]
    /\ pc' = "built"
    /\ UNCHANGED <<heap, printer, out, outs, mvars, rvars, xvars>>

\* Both mappings are rendered by _safe_repr(., {}, maxl, 0) and by pformat.
RenderBoth(maxl) ==
    /\ pc = "built"
    /\ outs' = [maxl |-> maxl,
                safe1 |-> SafeRepr(heap, 1, {}, maxl, 0).rep,
                safe2 |-> SafeRepr(heap2, 1, {}, maxl, 0).rep,
                pf1 |-> Pformat(heap, printer, 1),
                pf2 |-> Pformat(heap2, printer, 1)]
    /\ pc' = "done"
    /\ UNCHANGED <<heap, printer, out, heap2, mvars, rvars, xvars>>

NextOrder ==
    \/ \E f \in Perms(Len(heap[1].items)) : Reinsert(f)
    \/ \E maxl \in {0, 1} : RenderBoth(maxl)

SpecOrder == InitOrder /\ [][NextOrder]_vars

\* ------------------------------------------------------ __repr__ called
\* What pformat hands to __repr__: characters, blanks and newlines between a
\* first and a last character that are not blank.
ReprStrings ==
    {s \in SeqsUpTo({"x", " ", "\n"}, MaxReprLen) :
        s # <<>> /\ s[1] = "x" /\ s[Len(s)] = "x"}

InitRepr ==
    /\ heap = [o \in ObjIds |-> EmptyList]
    /\ pc = "idle"
    /\ repr_ \in ReprStrings
    /\ nCharMax \in 0..MaxBudget
    /\ result = <<>>
    /\ PrinterIdle
    /\ MachineIdle
    /\ ExtraIdle

\* __repr__(N_CHAR_MAX=nCharMax) after pformat returned repr_
ReprCall ==
    /\ pc = "idle"
    /\ result' = Truncate(repr_, nCharMax)
    /\ pc' = "done"
    /\ UNCHANGED <<heap, repr_, nCharMax, mvars, pvars, xvars>>

NextRepr == ReprCall

SpecRepr == InitRepr /\ [][NextRepr]_vars

\* ------------------------------------------------------ PickleMixin.save
NoFile == "none"
\* the objects that are pickled
Pickles == {"p", "q"}
\* what the user may type
Answers == {"y", "Y", "yes", "Yes", "YES", "", "n", "no", "NO", "yes!"}

\* str.lower()
Lower(a) ==
    CASE a = "Y" -> "y"
      [] a \in {"Yes", "YES"} -> "yes"
      [] a = "NO" -> "no"
      [] OTHER -> a

\* os.path.exists(path=filename)
Exists(f) == f # NoFile

\* The builtin input(): it takes its prompt by position only, a call with a
\* keyword argument raises TypeError before anything is written or read;
\* a call by position writes the prompt and returns the line typed.
InputCall(byKeyword, line) ==
    IF byKeyword THEN [raised |-> TRUE, asked |-> FALSE, value |-> ""]
    ELSE [raised |-> FALSE, asked |-> TRUE, value |-> line]

\* user_input.lower() in ['y', 'yes', '']
Accepts(user_input) == Lower(user_input) \in {"y", "yes", ""}

\* _save(filename): the file holds the pickle of the object
SaveFile(obj) == obj

InitSave ==
    /\ heap = [o \in ObjIds |-> EmptyList]
    /\ pc = "idle"
    /\ file \in {NoFile} \cup Pickles
    /\ file0 = file
    /\ self \in Pickles
    /\ answer \in Answers
    /\ prompted = FALSE
    /\ MachineIdle
    /\ PrinterIdle
    /\ ReprIdle
    /\ LoopIdle
    /\ PricingIdle

\* self.save(filename=...): input is called as input(prompt=prompt)
Save ==
    /\ pc = "idle"
    /\ IF Exists(file)
       THEN LET user_input == InputCall(TRUE, answer)
            IN /\ prompted' = user_input.asked
               /\ IF user_input.raised
                  THEN pc' = "save raised" /\ file' = file
                  ELSE /\ pc' = "saved"
                       /\ file' = IF Accepts(user_input.value) THEN SaveFile(self)
                                  ELSE file
       ELSE /\ file' = SaveFile(self)
            /\ pc' = "saved"
            /\ prompted' = prompted
    /\ UNCHANGED <<heap, file0, self, answer, mvars, pvars, rvars, lvars, dvars>>

NextSave == Save

SpecSave == InitSave /\ [][NextSave]_vars

\* ------------------------------------------------------ the item loops
\* _format_items and _format_params_or_dict_items are run on the same
\* arguments: the printer (width, compact, n_max_elements_to_show and
\* _indent_per_level), indent, allowance, and items whose flat renderings
\* (rep) have the widths ws.  What _format writes for an item lies outside
\* the loops: it is the mark '#' followed by the allowance _format is given.
LoopWidth == 8
ItemWidths == {1, 3, 6}
Xs(n) == [i \in 1..n |-> "x"]
Deferred(allowance) == <<"#" \o ToString(allowance)>>

LoopArgs ==
    {[P |-> Printer(LoopWidth, 0, c, n), ipl |-> ipl, indent |-> ind,
      allowance |-> a, ws |-> ws] :
        c \in BOOLEAN, n \in -1..MaxLoopItems, ipl \in {1, 2}, ind \in {0, 2},
        a \in {1, 2}, ws \in SeqsUpTo(ItemWidths, MaxLoopItems)}

InitLoop ==
    /\ heap = [o \in ObjIds |-> EmptyList]
    /\ pc = "idle"
    /\ lp \in LoopArgs
    /\ fi = LoopIdleState
    /\ fp = LoopIdleState
    /\ MachineIdle
    /\ PrinterIdle
    /\ ReprIdle
    /\ SaveIdle
    /\ PricingIdle

\* indent += self._indent_per_level
LoopIndent == lp.indent + lp.ipl
\* delimnl = ',\n' + ' ' * indent
Delimnl == <<",", "\n">> \o Spaces(LoopIndent)

\* _format_items up to its loop: the indent is advanced, the padding of an
\* _indent_per_level above 1 is written, and without items it returns
ItemsEnter ==
    /\ fi.at = "call"
    /\ LET L == [LoopStart(lp.P, LoopIndent) EXCEPT !.out = Spaces(lp.ipl - 1)]
       IN fi' = [at |-> IF lp.ws = <<>> THEN "end" ELSE "loop", i |-> 1,
                 trace |-> <<L>>, L |-> L]
    /\ UNCHANGED <<heap, pc, lp, fp, mvars, pvars, rvars, svars, dvars>>

\* one pass of the loop of _format_items
ItemsPass ==
    /\ fi.at = "loop"
    /\ IF LimitReached(lp.P, fi.L)
       THEN fi' = [fi EXCEPT !.at = "end", !.L.out = @ \o EllipsisItem]
       ELSE LET last == fi.i = Len(lp.ws)
                L == ItemLayout(lp.P, fi.L, last, lp.allowance, Delimnl,
                                Xs(lp.ws[fi.i]),
                                Deferred(IF last THEN lp.allowance ELSE 1))
            IN fi' = [at |-> IF last THEN "end" ELSE "loop", i |-> fi.i + 1,
                      trace |-> Append(fi.trace, L), L |-> L]
    /\ UNCHANGED <<heap, pc, lp, fp, mvars, pvars, rvars, svars, dvars>>

\* _format_params_or_dict_items up to its loop: no padding is written
ParamsEnter ==
    /\ fp.at = "call"
    /\ LET L == LoopStart(lp.P, LoopIndent)
       IN fp' = [at |-> IF lp.ws = <<>> THEN "end" ELSE "loop", i |-> 1,
                 trace |-> <<L>>, L |-> L]
    /\ UNCHANGED <<heap, pc, lp, fi, mvars, pvars, rvars, svars, dvars>>

\* one pass of the loop of _format_params_or_dict_items
ParamsPass ==
    /\ fp.at = "loop"
    /\ IF LimitReached(lp.P, fp.L)
       THEN fp' = [fp EXCEPT !.at = "end", !.L.out = @ \o EllipsisItem]
       ELSE LET last == fp.i = Len(lp.ws)
                L == ParamsLayout(lp.P, fp.L, last, lp.allowance, Delimnl,
                                  Xs(lp.ws[fp.i]),
                                  Deferred(IF last THEN lp.allowance ELSE 1))
            IN fp' = [at |-> IF last THEN "end" ELSE "loop", i |-> fp.i + 1,
                      trace |-> Append(fp.trace, L), L |-> L]
    /\ UNCHANGED <<heap, pc, lp, fi, mvars, pvars, rvars, svars, dvars>>

NextLoop == ItemsEnter \/ ItemsPass \/ ParamsEnter \/ ParamsPass

SpecLoop == InitLoop /\ [][NextLoop]_vars

\* ------------------------------------------------------ get_pricing
\* A date argument is None, a day 0..MaxDate (a date, a datetime, a
\* Timestamp, a string that names a day, or an int taken as a year), a
\* string pandas cannot parse ("bad"), or a value pandas.to_datetime turns
\* into NaT ("nat": 'NaT', 'nan', '', numpy.datetime64('NaT'), pandas.NaT).
Days == 0..MaxDate
DateArg(k, d) == [k |-> k, d |-> d]
NoDate == DateArg("none", 0)
NaT == DateArg("nat", 0)
DateArgs == {NoDate, NaT, DateArg("bad", 0)} \cup {DateArg("day", d) : d \in Days}

\* pandas.to_datetime(x) for x that is not None
ToDatetime(x) ==
    IF x.k = "bad" THEN [raised |-> TRUE, value |-> NaT]
    ELSE [raised |-> FALSE, value |-> x]

\* the comparisons of Timestamps; every comparison with NaT is False
TsLt(a, b) == a.k = "day" /\ b.k = "day" /\ a.d < b.d
TsLe(a, b) == a.k = "day" /\ b.k = "day" /\ a.d <= b.d
TsGt(a, b) == TsLt(b, a)
TsGe(a, b) == TsLe(b, a)

\* _sanitize_dates(start, end): the two arguments converted, or ValueError
SanitizeDates(start, end) ==
    IF start = NoDate /\ end = NoDate
    THEN [raised |-> FALSE, start |-> NoDate, end |-> NoDate]
    ELSE IF start # NoDate /\ ToDatetime(start).raised
         THEN [raised |-> TRUE, start |-> NoDate, end |-> NoDate]
    ELSE IF end # NoDate /\ ToDatetime(end).raised
         THEN [raised |-> TRUE, start |-> NoDate, end |-> NoDate]
    ELSE LET s1 == IF start = NoDate THEN NoDate ELSE ToDatetime(start).value
             e1 == IF end = NoDate THEN NoDate ELSE ToDatetime(end).value
         IN IF s1 # NoDate /\ e1 # NoDate /\ TsGt(s1, e1)
            THEN [raised |-> TRUE, start |-> NoDate, end |-> NoDate]
            ELSE [raised |-> FALSE, start |-> s1, end |-> e1]

\* the two range checks of get_pricing: some check raises ValueError
OutsideHistory(start, end, history_start, history_end) ==
    \/ /\ start # NoDate
       /\ (TsLt(start, history_start) \/ TsGe(start, history_end))
    \/ /\ end # NoDate
       /\ (TsLe(end, history_start) \/ TsGt(end, history_end))

\* data.loc[start:end]: a slice of the data; what label-slicing does with a
\* bound that is NaT is pandas' affair, it returns some frame or raises an
\* error of its own
LocOutcomes(start, end) ==
    IF start = NaT \/ end = NaT THEN {"returned", "raised in loc"} ELSE {"returned"}

InitPricing ==
    /\ heap = [o \in ObjIds |-> EmptyList]
    /\ pc = "idle"
    /\ argsOk \in BOOLEAN
    /\ startArg \in DateArgs
    /\ endArg \in DateArgs
    /\ hist \in {h \in Days \X Days : h[1] <= h[2]}
    /\ prices = "none"
    /\ MachineIdle
    /\ PrinterIdle
    /\ ReprIdle
    /\ SaveIdle
    /\ LoopIdle

\* get_pricing(symbols, csvdir=..., fields=..., start_date=startArg,
\* end_date=endArg) on files that hold the history hist
GetPricing ==
    /\ prices = "none" /\ pc = "idle"
    /\ LET dates == SanitizeDates(startArg, endArg)
       IN IF ~argsOk \/ dates.raised
             \/ OutsideHistory(dates.start, dates.end, DateArg("day", hist[1]),
                               DateArg("day", hist[2]))
          THEN prices' = "ValueError"
          ELSE prices' \in LocOutcomes(dates.start, dates.end)
    /\ pc' = "priced"
    /\ UNCHANGED <<heap, argsOk, startArg, endArg, hist, mvars, pvars, rvars, svars,
                   lvars>>

NextPricing == GetPricing

SpecPricing == InitPricing /\ [][NextPricing]_vars

\* ------------------------------------------------- claims about _safe_repr
RootObj == root[1]
RootLevel == root[2]
Node(o) == heap[o]
FrameIds == {stack[i].obj : i \in 1..Len(stack)}

\* the top-level call renders the children of its argument
TopExpands == ~(maxlevels # 0 /\ RootLevel >= maxlevels) /\ RootObj \notin ctx0

Acyclic(h) == \A o \in ObjIds : ~OnCycle(h, o)
SelfRefDict(h, o) == h[o].kind = "dict" /\ o \in Kids(h, o)

Contains(s, sub) ==
    \E i \in 0..(Len(s) - Len(sub)) : SubSeq(s, i + 1, i + Len(sub)) = sub

MarkerOf(o) == <<"<Recursion on " \o TypeName(Node(o)) \o " with id=" \o ToString(o) \o ">">>
BraceDots == <<"{", ".", ".", ".", "}">>

\* the stack machine returns what the function SafeRepr computes
MachineIsSafeRepr ==
    pc = "done" =>
        LET r == SafeRepr(heap, RootObj, ctx0, maxlevels, RootLevel)
        IN ret.rep = r.rep /\ ret.readable = r.readable /\ ret.recursive = r.recursive

\* the call has not run into the step cap and is not stuck
Progresses == pc = "run" => (steps < StepCap /\ ENABLED Step)

\* 'key: what' for every entry of object 1 whose value is object 1
SelfEntriesHold(what) ==
    \A i \in 1..Len(Node(1).items) :
        Node(1).items[i].v = 1 =>
            Contains(ret.rep, <<"'", Node(1).items[i].k, "'", ":", " ">> \o what)

\* C1 (as stated): for a self-referential mapping and every maxlevels, the
\* call returns with the recursion marker at the self-reference and
\* isRecursive true.
C1_MarkerAtEveryDepth ==
    (pc = "done" /\ SelfRefDict(heap, 1) /\ ctx0 = {} /\ RootLevel = 0) =>
        (ret.recursive /\ SelfEntriesHold(MarkerOf(1)))

\* C1 (amended): for a self-referential mapping the call terminates and the
\* mapping is never expanded twice on one path; when the top-level call
\* renders its children, the self-reference holds the recursion marker if
\* the children's level is below maxlevels (or there is no limit) and
\* '{...}' if it has reached it, and isRecursive is true; a top-level call
\* at the depth limit or on a mapping already in the context returns
\* '{...}' (isRecursive iff in the context) or the marker.
C1_SelfReferenceGuarded ==
    SelfRefDict(heap, 1) =>
        /\ Progresses
        /\ Cardinality({i \in 1..Len(stack) : stack[i].obj = 1}) <= 1
        /\ (pc = "done" /\ TopExpands) =>
              /\ ret.recursive
              /\ ~ret.readable
              /\ SelfEntriesHold(IF maxlevels # 0 /\ RootLevel + 1 >= maxlevels
                                 THEN BraceDots ELSE MarkerOf(1))
        /\ (pc = "done" /\ ~TopExpands) =>
              IF maxlevels # 0 /\ RootLevel >= maxlevels
              THEN ret.rep = BraceDots /\ ret.recursive = (1 \in ctx0)
              ELSE ret.rep = MarkerOf(1) /\ ret.recursive

C1_Witness ==
    /\ pc = "done" /\ SelfRefDict(heap, 1) /\ TopExpands /\ maxlevels = 0
    /\ Len(Node(1).items) = 2
    /\ ret.rep = <<"{", "'", "a", "'", ":", " ">> \o MarkerOf(1)
                 \o <<",", " ", "'", "b", "'", ":", " ", "0", "}">>

RECURSIVE BalancedFrom(_, _, _)
\* the marks of s[i..] close the marks in open (innermost last) and nest
BalancedFrom(s, i, open) ==
    IF i > Len(s) THEN open = <<>>
    ELSE CASE s[i] = "{" -> BalancedFrom(s, i + 1, Append(open, "}"))
           [] s[i] = "[" -> BalancedFrom(s, i + 1, Append(open, "]"))
           [] s[i] = "(" -> BalancedFrom(s, i + 1, Append(open, ")"))
           [] s[i] \in {"}", "]", ")"} ->
                 /\ open # <<>>
                 /\ open[Len(open)] = s[i]
                 /\ BalancedFrom(s, i + 1, SubSeq(open, 1, Len(open) - 1))
           [] OTHER -> BalancedFrom(s, i + 1, open)
Balanced(s) == BalancedFrom(s, 1, <<>>)

CountTok(s, t) == Cardinality({i \in 1..Len(s) : s[i] = t})

RECURSIVE Occurrences(_, _, _)
\* how often a container of one of the kinds occurs in the (acyclic) value o
Occurrences(h, o, kinds) ==
    IF o = Leaf THEN 0
    ELSE LET RECURSIVE Sum(_)
             Sum(i) == IF i > Len(h[o].items) THEN 0
                       ELSE Occurrences(h, h[o].items[i].v, kinds) + Sum(i + 1)
         IN (IF h[o].kind \in kinds THEN 1 ELSE 0) + Sum(1)

\* C2: for an acyclic value the call terminates and the marks of the string
\* (of every container's string) are matched and properly nested; without
\* depth limit and outer context every container occurrence contributes
\* exactly one opening and one closing mark of its kind.
C2_AcyclicBalanced ==
    Acyclic(heap) =>
        /\ Progresses
        /\ (ret.obj \in ObjIds => Balanced(ret.rep))
        /\ (pc = "done" /\ maxlevels = 0 /\ ctx0 = {}) =>
              /\ CountTok(ret.rep, "{") = Occurrences(heap, 1, {"dict"})
              /\ CountTok(ret.rep, "}") = Occurrences(heap, 1, {"dict"})
              /\ CountTok(ret.rep, "[") = Occurrences(heap, 1, {"list"})
              /\ CountTok(ret.rep, "]") = Occurrences(heap, 1, {"list"})
              /\ CountTok(ret.rep, "(") = Occurrences(heap, 1, {"tuple", "obj"})
              /\ CountTok(ret.rep, ")") = Occurrences(heap, 1, {"tuple", "obj"})
              /\ CountTok(ret.rep, "A") = Occurrences(heap, 1, {"obj"})

C2_Witness ==
    /\ pc = "done" /\ Acyclic(heap) /\ maxlevels = 0 /\ ctx0 = {}
    /\ Node(1).kind = "obj" /\ Node(2).kind = "list"
    /\ ret.rep = <<"A", "(", "a", "=", "[", "0", ",", " ", "0", "]", ",", " ",
                   "b", "=", "[", "0", ",", " ", "0", "]", ")">>

\* C3: in a call that has not raised, the context holds, besides what it held
\* at the call, exactly the identities of the frames that are rendering
\* children, no two of which are the same; after the call it is as before.
C3_ContextBracketsFrames ==
    pc \in {"run", "done"} =>
        /\ context = ctx0 \cup FrameIds
        /\ FrameIds \cap ctx0 = {}
        /\ \A i, j \in 1..Len(stack) : stack[i].obj = stack[j].obj => i = j
        /\ (pc = "done" => (stack = <<>> /\ context = ctx0))

C3_Witness ==
    /\ pc = "done" /\ ~ret.early /\ ctx0 = {2} /\ context = {2}
    /\ Node(1).items # <<>> /\ \A i \in 1..Len(Node(1).items) : Node(1).items[i].v = 2

\* C4 (as stated): also after an exception (and after an early return) the
\* context holds no identity of a frame of the call that ended.
C4_BracketOnEveryPath ==
    pc \in {"done", "raised"} => context = ctx0

\* C9 (as stated, read for containers that have children): at the depth limit
\* a mapping is returned as '{...}', a list as '[...]' and a tuple as '(...)',
\* with isReadable false.
C9_PlaceholderForEvery ==
    (/\ ret.obj \in ObjIds /\ maxlevels # 0 /\ ret.level >= maxlevels
     /\ Node(ret.obj).items # <<>>) =>
        /\ ~ret.readable
        /\ ret.rep = CASE Node(ret.obj).kind = "list" -> <<"[", ".", ".", ".", "]">>
                       [] Node(ret.obj).kind = "tuple" -> <<"(", ".", ".", ".", ")">>
                       [] OTHER -> BraceDots

\* C9 (amended): at the depth limit a call returns without rendering a child:
\* '{...}' for a non-empty mapping and for a ReprMixin object, '[...]' for a
\* non-empty list, '(...)' for a tuple of two or more elements, '(...,)' for
\* a one-element tuple, all with isReadable false; an empty mapping, list or
\* tuple is '{}', '[]', '()' with isReadable true.
C9_PlaceholderAtDepthLimit ==
    (ret.obj \in ObjIds /\ maxlevels # 0 /\ ret.level >= maxlevels) =>
        LET kind == Node(ret.obj).kind
            n == Len(Node(ret.obj).items)
        IN /\ ret.early
           /\ ret.readable = (n = 0 /\ kind # "obj")
           /\ ret.rep =
                CASE kind = "obj" -> BraceDots
                  [] kind = "dict" -> IF n = 0 THEN <<"{", "}">> ELSE BraceDots
                  [] kind = "list" ->
                        IF n = 0 THEN <<"[", "]">> ELSE <<"[", ".", ".", ".", "]">>
                  [] kind = "tuple" ->
                        IF n = 0 THEN <<"(", ")">>
                        ELSE IF n = 1 THEN <<"(", ".", ".", ".", ",", ")">>
                        ELSE <<"(", ".", ".", ".", ")">>

C9_Witness ==
    /\ ret.obj = 2 /\ maxlevels = 2 /\ ret.level = 2 /\ RootLevel = 1
    /\ Node(2).kind = "tuple" /\ Len(Node(2).items) = 1
    /\ ret.rep = <<"(", ".", ".", ".", ",", ")">>

\* C10: a tuple that is rendered has the trailing comma exactly when it has
\* one element: '(' + element + ',)'; an empty tuple is '()', a longer one
\* '(a, b)'; a list is '[...]' without a trailing comma for every length.
C10_SingletonTupleComma ==
    (ret.obj \in ObjIds /\ Node(ret.obj).kind \in {"tuple", "list"}) =>
        LET kind == Node(ret.obj).kind
            n == Len(Node(ret.obj).items)
            body == Join(ret.comps, CommaSpace)
        IN /\ ~ret.early =>
                /\ Len(ret.comps) = n
                /\ ret.rep = IF kind = "list" THEN <<"[">> \o body \o <<"]">>
                             ELSE IF n = 1 THEN <<"(">> \o ret.comps[1] \o <<",", ")">>
                             ELSE <<"(">> \o body \o <<")">>
           /\ (ret.early /\ n = 0) =>
                ret.rep = IF kind = "list" THEN <<"[", "]">> ELSE <<"(", ")">>
           /\ Len(ret.rep) > 1 =>
                ((ret.rep[Len(ret.rep) - 1] = ",") <=> (kind = "tuple" /\ n = 1))

C10_Witness ==
    /\ ret.obj = 1 /\ ~ret.early /\ pc = "done"
    /\ Node(1).kind = "tuple" /\ Len(Node(1).items) = 1
    /\ ret.rep = <<"(", "[", "]", ",", ")">>

\* ------------------------------------------ claims about the key order
KeysOf(node) == {node.items[i].k : i \in 1..Len(node.items)}
\* of every two keys one sorts before the other
PairwiseOrdered(K) ==
    \A k1, k2 \in K : k1 # k2 => (SafeKeyLt(k1, k2) \/ SafeKeyLt(k2, k1))

\* where sub first occurs in s (past the end if nowhere)
FirstAt(s, sub) ==
    IF Contains(s, sub)
    THEN CHOOSE i \in 1..Len(s) :
            /\ SubSeq(s, i, i + Len(sub) - 1) = sub
            /\ \A j \in 1..(i - 1) : SubSeq(s, j, j + Len(sub) - 1) # sub
    ELSE Len(s) + 1

SameRenderings == outs.safe1 = outs.safe2 /\ outs.pf1 = outs.pf2

\* C5 (as stated): two mappings with the same content in different insertion
\* orders are rendered as the same string by _safe_repr and by pformat.
C5_OrderIndependent == pc = "done" => SameRenderings

\* C5 (amended): if of every two keys one sorts before the other (the keys'
\* own <, or the order of the type names for keys of types that cannot be
\* compared), the two mappings are rendered as the same string by _safe_repr
\* and by pformat, and the entries appear in ascending key order.
C5_SortedWhenOrdered ==
    (pc = "done" /\ PairwiseOrdered(KeysOf(heap[1]))) =>
        /\ SameRenderings
        /\ outs.maxl = 1 =>
              \A k1, k2 \in KeysOf(heap[1]) :
                  SafeKeyLt(k1, k2) =>
                      FirstAt(outs.safe1, KeyRepr(k1) \o <<":", " ">>)
                          < FirstAt(outs.safe1, KeyRepr(k2) \o <<":", " ">>)

C5_Witness ==
    /\ pc = "done" /\ heap # heap2
    /\ KeysOf(heap[1]) = {"a", "b", "h"}
    /\ heap[1].items[1] = Entry("b", 2) /\ heap2[1].items[1].k = "a"
    /\ outs.pf1 = outs.pf2 /\ Contains(outs.pf1, <<"\n">>)
    /\ outs.safe1 = outs.safe2
    /\ FirstAt(outs.safe1, <<"frozenset">>) < FirstAt(outs.safe1, <<"'", "a", "'">>)

\* ------------------------------------------- claims about the element limit
EndsWith(s, t) == Len(s) >= Len(t) /\ SubSeq(s, Len(s) - Len(t) + 1, Len(s)) = t

\* the closing mark of a container
Closer(node) ==
    CASE node.kind = "dict" -> <<"}">>
      [] node.kind = "list" -> <<"]">>
      [] node.kind = "tuple" -> IF Len(node.items) = 1 THEN <<",", ")">> ELSE <<")">>
      [] OTHER -> <<")">>

\* C6 (as stated, for the outermost container and no depth limit): a
\* container with more than n_max_elements_to_show elements is rendered by
\* pformat with ', ...' and the closing mark at its end.
C6_EllipsisBeyondLimit ==
    (/\ pc = "done" /\ printer.depth = 0 /\ printer.nmax >= 0
     /\ Len(heap[1].items) > printer.nmax) =>
        EndsWith(out, EllipsisItem \o Closer(heap[1]))

\* ------------------------------------------------ claims about __repr__
\* r is left + '...' + right for the first l and the last n characters of s
CutAt(r, s, l, n) ==
    r = SubSeq(s, 1, l) \o <<".", ".", ".">> \o SubSeq(s, Len(s) - n + 1, Len(s))

\* C7 (as stated, read for N_CHAR_MAX >= 2): over the budget, the returned
\* string is left + '...' + right (or, where that would not be shorter, the
\* rendered string) and has no more non-blank characters than the rendered
\* string.
C7_NonBlankNeverGrows ==
    (pc = "done" /\ nCharMax >= 2 /\ NonBlank(repr_) > nCharMax) =>
        /\ result = repr_ \/ \E l, n \in 0..Len(repr_) : CutAt(result, repr_, l, n)
        /\ NonBlank(result) <= NonBlank(repr_)

\* C7 (amended): over the budget, the returned string is the rendered string
\* itself or left + '...' + right, where left is the prefix up to the
\* (N_CHAR_MAX // 2)-th non-blank character and right a suffix with at least
\* as many non-blank characters; for N_CHAR_MAX >= 2 the two do not overlap
\* and the result is strictly shorter, for N_CHAR_MAX < 2 left is empty and
\* right is the whole rendered string.  The returned string has at most
\* three non-blank characters more than the rendered string.
C7_EllipsisForm ==
    (pc = "done" /\ NonBlank(repr_) > nCharMax) =>
        /\ \/ result = repr_
           \/ \E l, n \in 0..Len(repr_) :
                /\ CutAt(result, repr_, l, n)
                /\ NonBlank(SubSeq(repr_, 1, l)) = nCharMax \div 2
                /\ l > 0 => repr_[l] \notin Blank
                /\ NonBlank(SubSeq(repr_, Len(repr_) - n + 1, Len(repr_)))
                       >= nCharMax \div 2
                /\ nCharMax >= 2 => l + 3 + n < Len(repr_)
                /\ nCharMax < 2 => (l = 0 /\ n = Len(repr_))
        /\ NonBlank(result) <= NonBlank(repr_) + 3

C7_Witness ==
    /\ pc = "done" /\ nCharMax = 2
    /\ repr_ = <<"x", "x", " ", " ", "x", "x">>
    /\ result = <<"x", ".", ".", ".", "x">>
    /\ NonBlank(result) > NonBlank(repr_)

\* C8 (as stated): for every N_CHAR_MAX >= 0 the returned string is the
\* rendered string or a strictly shorter one.
C8_NeverLonger ==
    pc = "done" => (result = repr_ \/ Len(result) < Len(repr_))

\* ------------------------------------------- claims about ReprMixin objects
Openers == {"{", "[", "("}
Closers == {"}", "]", ")"}
\* how many containers are open in s before position i
NestingAt(s, i) ==
    Cardinality({j \in 1..(i - 1) : s[j] \in Openers})
        - Cardinality({j \in 1..(i - 1) : s[j] \in Closers})

\* the positions of the keys of TypeName(key=value, ...): directly inside
\* the outermost parentheses and followed by '='
ParamAt(s) == {i \in 1..(Len(s) - 1) : s[i + 1] = "=" /\ NestingAt(s, i) = 1}

\* s is TypeName(key1=..., key2=..., ...) with exactly the parameters of
\* node, ascending by key, and no quote character around a key
ParamsAsKeywords(s, node) ==
    /\ Len(s) >= 3 /\ s[1] = TypeName(node) /\ s[2] = "(" /\ s[Len(s)] = ")"
    /\ {s[i] : i \in ParamAt(s)} = KeysOf(node)
    /\ Cardinality(ParamAt(s)) = Len(node.items)
    /\ \A i, j \in ParamAt(s) : i < j => StrRank(s[i]) < StrRank(s[j])
    /\ \A i \in 1..Len(s) : NestingAt(s, i) = 1 => s[i] # "'"

\* C11 (as stated, without element limit): the flat rendering and the
\* pformat rendering of a ReprMixin object are TypeName(key1=val1, ...) with
\* exactly the parameters of get_params, ascending by key, every key without
\* quote characters and followed by '='.
C11_ParamsAsKeywords ==
    (pc = "done" /\ heap[1].kind = "obj" /\ printer.nmax = -1) =>
        /\ ParamsAsKeywords(SafeRepr(heap, 1, {}, printer.depth, 0).rep, heap[1])
        /\ ParamsAsKeywords(out, heap[1])

\* ------------------------------------------- claims about isReadable
\* a depth-limit placeholder occurs in s
HasPlaceholder(s) ==
    \/ Contains(s, <<"{">> \o Dots \o <<"}">>)
    \/ Contains(s, <<"[">> \o Dots \o <<"]">>)
    \/ Contains(s, <<"(">> \o Dots \o <<")">>)
    \/ Contains(s, <<"(">> \o Dots \o <<",", ")">>)
\* a recursion marker occurs in s
HasMarker(s) == \E i \in 1..Len(s), o \in ObjIds : s[i] = MarkerOf(o)[1]

RECURSIVE FlatText(_, _, _, _, _)
\* the text of o at the given level, written without any flag: scalars,
\* empty containers, placeholders at the depth limit, markers for what is
\* in ctx, and the joined components otherwise
FlatText(h, o, ctx, maxl, level) ==
    IF o = Leaf THEN <<"0">>
    ELSE IF h[o].kind # "obj" /\ h[o].items = <<>> THEN Wrap(h[o], <<>>)
    ELSE IF maxl # 0 /\ level >= maxl THEN Placeholder(h[o])
    ELSE IF o \in ctx THEN MarkerOf(o)
    ELSE LET items == IF h[o].kind \in {"dict", "obj"} THEN SortedItems(h[o].items)
                      ELSE h[o].items
         IN Wrap(h[o], Join([i \in 1..Len(items) |->
                               Component(h[o], items[i],
                                         FlatText(h, items[i].v, ctx \cup {o}, maxl,
                                                  level + 1))],
                            CommaSpace))

C13_OverwriteIffYes ==
    pc \in {"saved", "save raised"} =>
        IF file0 # NoFile
        THEN /\ pc = "saved"
             /\ prompted
             /\ file = IF Lower(answer) \in {"y", "yes", ""} THEN self ELSE file0
        ELSE /\ pc = "saved"
             /\ ~prompted
             /\ file = self

\* ------------------------------------------- claims about the item loops
\* the passes a loop has made
Passes(f) == IF f.at = "call" THEN 0 ELSE Len(f.trace) - 1
\* the loop's variables before and after its j-th pass
Before(f, j) == f.trace[j]
After(f, j) == f.trace[j + 1]
IsLast(j) == j = Len(lp.ws)
NlIndent == <<",", "\n">> \o Spaces(lp.indent + lp.ipl)

\* The j-th pass of loop f is the greedy step: with w the width of the flat
\* item plus 2, a remaining budget below w is replaced by the budget of a
\* full line and the separator (there is none before the first item) becomes
\* newline + indent; a budget of at least w then takes the item flat and
\* loses w, and otherwise the item is handed to _format, behind a newline
\* and followed by one, the budget staying that of a full line.
GreedyPass(f, j) ==
    LET reserve == IF IsLast(j) THEN lp.allowance ELSE 0
        w == lp.ws[j] + 2
        budget == Before(f, j).width - reserve
        line == Before(f, j).max_width - reserve
        sep == IF j = 1 THEN <<>>
               ELSE IF budget < w THEN NlIndent
               ELSE Before(f, j).delim
    IN IF budget >= w \/ line >= w
       THEN /\ After(f, j).out = Before(f, j).out \o sep \o Xs(lp.ws[j])
            /\ After(f, j).width = (IF budget >= w THEN budget ELSE line) - w
            /\ After(f, j).delim = <<",", " ">>
       ELSE /\ After(f, j).out = Before(f, j).out \o sep
                                   \o <<"#" \o ToString(IF IsLast(j) THEN lp.allowance
                                                         ELSE 1)>>
            /\ j > 1 => sep = NlIndent
            /\ After(f, j).width = line
            /\ After(f, j).delim = NlIndent

\* C14: in compact mode both loops start with the budget
\* width - indent + 1 (indent advanced by _indent_per_level) and every pass
\* is the greedy step.
C14_GreedyCompact ==
    lp.P.compact =>
        \A f \in {fi, fp} :
            /\ f.at # "call" =>
                  /\ Before(f, 1).width = lp.P.width - (lp.indent + lp.ipl) + 1
                  /\ Before(f, 1).max_width = Before(f, 1).width
            /\ \A j \in 1..Passes(f) : GreedyPass(f, j)

C14_Witness ==
    /\ lp.P.compact /\ lp.indent = 2 /\ lp.ipl = 1 /\ lp.allowance = 1
    /\ lp.ws = <<1, 6, 1>> /\ lp.P.nmax = -1
    /\ fi.at = "end" /\ fp.at = "end"
    /\ fi.L.out = <<"x", ",", "\n", " ", " ", " ", "#1", ",", "\n", " ", " ", " ", "x">>
    /\ fp.L.out = fi.L.out

\* the position of the last newline of s (0 if it has none)
LastNl(s) ==
    IF \E i \in 1..Len(s) : s[i] = "\n"
    THEN CHOOSE i \in 1..Len(s) : s[i] = "\n" /\ \A j \in (i + 1)..Len(s) : s[j] # "\n"
    ELSE 0
\* the column reached after a loop wrote s: the loop starts writing behind
\* the opening mark, at column indent + 1
ColAfter(s) == IF LastNl(s) = 0 THEN lp.indent + 1 + Len(s) ELSE Len(s) - LastNl(s)

\* the allowance the j-th item is laid out with
AllowanceOf(j) == IF IsLast(j) THEN lp.allowance ELSE 1

NthFromStart(s, n) ==
    IF n = 0 THEN 0
    ELSE CHOOSE i \in 1..Len(s) :
            s[i] \notin Blank /\ Cardinality({j \in 1..i : s[j] \notin Blank}) = n
NthFromEnd(s, n) ==
    IF n = 0 THEN Len(s) + 1
    ELSE CHOOSE i \in 1..Len(s) :
            s[i] \notin Blank /\ Cardinality({j \in i..Len(s) : s[j] \notin Blank}) = n

\* where the kept suffix begins: at the n-th non-blank character from the
\* end, or, if a line break lies between the cuts, at the last such break
SuffixStart(s, n) ==
    LET l == NthFromStart(s, n)
        p == NthFromEnd(s, n)
        breaks == {i \in (l + 1)..(p - 1) : s[i] = "\n"}
    IN IF breaks = {} THEN p
       ELSE CHOOSE i \in breaks : \A j \in breaks : j <= i

\* C16 (as stated): when the string is cut, with N = N_CHAR_MAX // 2, the
\* kept prefix ends at the N-th non-blank character from the start, the kept
\* suffix begins at the N-th non-blank character from the end, or at the
\* line break before it if one lies between the cuts (none does in a string
\* without newline).
C16_CutsAtNthNonBlank ==
    (pc = "done" /\ result # repr_) =>
        result = SubSeq(repr_, 1, NthFromStart(repr_, nCharMax \div 2))
                 \o <<".", ".", ".">>
                 \o SubSeq(repr_, SuffixStart(repr_, nCharMax \div 2), Len(repr_))

\* ------------------------------------------- claims about get_pricing
\* the day d lies in the history as a start and as an end
StartInside(x) == x.k = "day" /\ hist[1] <= x.d /\ x.d < hist[2]
EndInside(x) == x.k = "day" /\ hist[1] < x.d /\ x.d <= hist[2]

\* C17 (as stated): get_pricing returns only if a given start_date
\* satisfies history_start <= start < history_end and a given end_date
\* history_start < end <= history_end; otherwise ValueError is raised.
C17_OnlyInsideHistory ==
    prices # "none" =>
        IF (startArg.k = "none" \/ StartInside(startArg))
           /\ (endArg.k = "none" \/ EndInside(endArg))
        THEN prices \in {"returned", "ValueError"}
        ELSE prices = "ValueError"

\* the budget of a full line in the j-th pass
FullLine(j) ==
    lp.P.width - (lp.indent + lp.ipl) + 1 - (IF IsLast(j) THEN lp.allowance ELSE 0)
\* the loops do not stop at the element limit
NoElementLimit == lp.P.nmax = -1 \/ Len(lp.ws) <= lp.P.nmax
\* every item, with its two columns for the separator, fits a full line
AllFitFullLine == \A j \in 1..Len(lp.ws) : lp.ws[j] + 2 <= FullLine(j)
\* no line of s, written from column indent + 1 on, is longer than width
WithinWidth(s) == \A i \in 1..Len(s) : ColAfter(SubSeq(s, 1, i)) <= lp.P.width

HasEllipsis(s) == \E i \in 1..Len(s) : s[i] = "."
\* the number of items a loop has laid out so far
LaidOut(f) == IF f.at = "call" THEN 0 ELSE f.L.n_items

\* C19: a container with at most n_max_elements_to_show elements (exactly
\* that many included), or any container when n_max_elements_to_show is
\* None, is never stopped at the limit: no pass of either loop finds the
\* limit reached, and at the end every element has been laid out, one per
\* pass, and the text holds no ', ...'.
C19_NoTruncationWithinLimit ==
    NoElementLimit =>
        \A f \in {fi, fp} :
            /\ f.at = "loop" => ~LimitReached(lp.P, f.L)
            /\ f.at = "end" =>
                  /\ Passes(f) = Len(lp.ws)
                  /\ LaidOut(f) = Len(lp.ws)
                  /\ f.L = After(f, Passes(f))
                  /\ ~HasEllipsis(f.L.out)

\* both loops have finished a container of exactly n_max_elements_to_show
\* elements, at least two
C19_Witness ==
    /\ lp.P.nmax = Len(lp.ws) /\ Len(lp.ws) >= 2
    /\ fi.at = "end" /\ fp.at = "end"
    /\ LaidOut(fi) = lp.P.nmax /\ LaidOut(fp) = lp.P.nmax
    /\ ~HasEllipsis(fi.L.out) /\ ~HasEllipsis(fp.L.out)

\* ---------------------------------------------------------------- C20
\* the padding _format_items writes before its loop
ItemsPad == Spaces(lp.ipl - 1)
\* the loops' variables a (of _format_items) and b (of
\* _format_params_or_dict_items) record the same decisions: the same
\* separator pending, the same budgets, the same count, the same flat or
\* recursive choice, and the same text behind the padding
SameDecisions(a, b) ==
    /\ a.delim = b.delim
    /\ a.width = b.width
    /\ a.max_width = b.max_width
    /\ a.n_items = b.n_items
    /\ a.flat = b.flat
    /\ a.out = ItemsPad \o b.out
\* the recorded points both loops have passed: the entry and each pass
CommonPoints ==
    IF Len(fi.trace) < Len(fp.trace) THEN Len(fi.trace) ELSE Len(fp.trace)

\* C20: called with the same indent, allowance, width, element limit and
\* flat item widths, _format_items and _format_params_or_dict_items choose
\* the same separator before each item, the same flat or recursive layout of
\* each item and the same point for ', ...': after every pass both have made
\* their variables and texts agree, they stop after the same number of
\* passes, and their finished texts agree.
C20_SameLayoutDecisions ==
    /\ \A j \in 1..CommonPoints : SameDecisions(fi.trace[j], fp.trace[j])
    /\ (fi.at = "end" /\ fp.at = "end") =>
          /\ Passes(fi) = Passes(fp)
          /\ SameDecisions(fi.L, fp.L)
          /\ HasEllipsis(fi.L.out) <=> HasEllipsis(fp.L.out)

\* both loops have finished three items under a limit of two: the first
\* flat, the second handed to _format behind a line break, then ', ...'
C20_Witness ==
    /\ fi.at = "end" /\ fp.at = "end"
    /\ lp.P.compact /\ lp.P.nmax = 2 /\ Len(lp.ws) = 3 /\ lp.ipl = 2
    /\ After(fi, 1).flat /\ ~After(fi, 2).flat
    /\ After(fp, 1).flat /\ ~After(fp, 2).flat
    /\ LastNl(fp.L.out) > 0
    /\ HasEllipsis(fi.L.out) /\ HasEllipsis(fp.L.out)
    /\ fi.L.out # fp.L.out

\* ---------------------------------------------------------------- C22
\* this step is a _safe_repr call that returns without a frame of its own:
\* the top-level call, or the call for a child inside the caller's loop
ReturnsAtOnce ==
    \/ pc = "idle" /\ pc' = "done"
    \/ pc = "run" /\ pc' = "run" /\ Len(stack') = Len(stack)
\* the object has the depth and the cycle test ahead of it: it is no scalar
\* and no empty mapping, list or tuple
PastEmptyTest(o) == o \in ObjIds /\ (Node(o).kind = "obj" \/ Node(o).items # <<>>)

\* C22: the depth test comes before the cycle test.  A call for a non-empty
\* container at a level that has reached maxlevels returns the container's
\* ellipsis placeholder, unreadable, with isRecursive true exactly when the
\* container is on the active path (never the recursion marker); with
\* maxlevels None or 0 no call returns a placeholder at any level: a
\* container returns at once only when it is on the active path, as the
\* recursion marker, and is expanded otherwise.
C22_DepthTestFirst ==
    [][ReturnsAtOnce =>
          LET r == ret'
              onPath == r.obj \in context
              atLimit == maxlevels' # 0 /\ r.level >= maxlevels'
          IN PastEmptyTest(r.obj) =>
                /\ r.early /\ ~r.readable
                /\ atLimit =>
                      /\ r.rep = Placeholder(Node(r.obj))
                      /\ r.rep # MarkerOf(r.obj)
                      /\ r.recursive = onPath
                /\ ~atLimit =>
                      /\ onPath
                      /\ r.rep = MarkerOf(r.obj)
                      /\ r.recursive
    ]_vars

\* a list that holds itself, rendered from level 0 with an empty context
\* under maxlevels 1: the call for the inner occurrence, on the path and at
\* the limit, has just returned '[...]' with isRecursive true
C22_Witness ==
    /\ pc = "run" /\ steps = 2 /\ ctx0 = {} /\ RootLevel = 0 /\ maxlevels = 1
    /\ Node(1).kind = "list"
    /\ ret.early /\ ret.obj = 1 /\ ret.level = 1
    /\ ret.obj \in FrameIds /\ ret.obj \in context
    /\ ret.rep = <<"[", ".", ".", ".", "]">>
    /\ ~ret.readable /\ ret.recursive

\* ---------------------------------------------------------------- C21
\* the characters of s that are neither a blank nor a line break
NonWhitespace(s) == SelectSeq(s, LAMBDA t : t \notin Blank)
\* no container is longer than the printer's element limit
NoTruncation(h, P) ==
    P.nmax = -1 \/ \A o \in ObjIds : Len(h[o].items) <= P.nmax
\* what the claim is about: pformat has returned for an acyclic value under
\* a printer without depth limit whose element limit does not fire
LineFittingOnly ==
    /\ pc = "done" /\ Acyclic(heap)
    /\ printer.depth = 0 /\ NoTruncation(heap, printer)

\* C21 (as stated): for an acyclic value, without depth limit and without
\* element truncation, the text of pformat and the flat text of _safe_repr
\* are the same sequence of non-whitespace characters.
C21_SameNonWhitespace ==
    LineFittingOnly =>
        NonWhitespace(out) = NonWhitespace(SafeRepr(heap, 1, {}, 0, 0).rep)


====
